---- MODULE Spec2Model ----
(***************************************************************************)
(* Model of src/src/tools/command_executor.py: the policy-gated command    *)
(* executor (CommandExecutor) with its background task supervisor.         *)
(*                                                                         *)
(* Three specifications share the variables:                               *)
(*   SpecPolicy  the pure decision function _is_command_allowed, applied   *)
(*               to bounded commands, allow-lists and block-lists;         *)
(*   Spec        the executor as a state machine: one caller thread, one   *)
(*               watchdog thread per background task, the spawned          *)
(*               processes and the time source;                            *)
(*   SpecPair    Spec with a caller that may make one more call and submit *)
(*               one more background task.                                 *)
(***************************************************************************)
EXTENDS Integers, Sequences, FiniteSets, TLC

(***************************************************************************)
(* Bounds of the model.                                                    *)
(***************************************************************************)
\* longest command string given to the policy
MaxCmdLen == 3
\* longest allow-list / block-list given to the policy
MaxListLen == 1
\* background tasks submitted in one run of Spec (one more in SpecPair)
MaxTasks == 1
\* calls of the public API in one run of Spec (two more in SpecPair, one
\* more in SpecHistory)
MaxCalls == 2
\* longest list of commands given to batch_execute in SpecBatch
MaxBatch == 3
\* threads that call _add_to_history in SpecHistory
MaxCallers == 2
\* largest small count given to get_command_history in SpecHistory
MaxCount == 2
\* last value of the time source
MaxClock == 1
\* clock ticks of the timeout every call uses (self.timeout)
TimeoutTicks == 1

(***************************************************************************)
(* Strings are sequences of characters, so that strip, lower and           *)
(* startswith are computed and not assumed.                                *)
(***************************************************************************)
Chars == {" ", "a", "A", "b"}

IsSpace(ch) == ch = " "

lowerChar(ch) == IF ch = "A" THEN "a" ELSE ch

\* str.lower()
lower(s) == [i \in 1..Len(s) |-> lowerChar(s[i])]

RECURSIVE lstrip(_)
lstrip(s) == IF s # <<>> /\ IsSpace(Head(s)) THEN lstrip(Tail(s)) ELSE s

RECURSIVE rstrip(_)
rstrip(s) ==
    IF s # <<>> /\ IsSpace(s[Len(s)]) THEN rstrip(SubSeq(s, 1, Len(s) - 1)) ELSE s

\* str.strip()
strip(s) == rstrip(lstrip(s))

\* s.startswith(p)
startswith(s, p) == Len(p) <= Len(s) /\ SubSeq(s, 1, Len(p)) = p

\* Python's None for a list-valued argument, and a list value
NoneList == [none |-> TRUE, items |-> <<>>]
ListOf(l) == [none |-> FALSE, items |-> l]

\* truth value of an Optional[List]: None and [] are both falsy
Truthy(l) == ~l.none /\ l.items # <<>>

(***************************************************************************)
(* State.                                                                  *)
(***************************************************************************)
VARIABLES
    allowed_commands,   \* self.allowed_commands: None or a list of prefixes
    blocked_commands,   \* self.blocked_commands: a list of prefixes
    command_history,    \* self.command_history: commands, oldest first
    background_tasks,   \* self.background_tasks: task id -> task object
    tasks,              \* the task objects (dicts), in creation order
    proc,               \* the process spawned for each task
    wd,                 \* the watchdog thread of each task
    cb,                 \* per task, the arguments its callback was invoked with
    ghost,              \* per task, how its run went (history variable)
    clock,              \* time.time(), in ticks of its resolution
    cpc,                \* where the caller thread is
    cur,                \* the call the caller is in, or made last
    ret,                \* what the last call returned
    budget,             \* the calls and submissions the caller may still make
    fg,                 \* the process of the foreground call
    polPc,              \* SpecPolicy: "call" before, "returned" after the check
    polCmd,             \* SpecPolicy: the command checked
    polRet,             \* SpecPolicy: the value _is_command_allowed returned
    hpc,                \* SpecHistory: where each thread is in _add_to_history
    recorded,           \* SpecHistory: every command recorded so far (history
                        \* variable)
    console,            \* SpecConsole: the line typed, where its handling is
                        \* and the commands given to a process spawn
    batch               \* SpecBatch: the call of batch_execute in progress

policyVars == <<allowed_commands, blocked_commands>>
probeVars == <<polPc, polCmd, polRet, hpc, recorded, console, batch>>
execVars ==
    <<command_history, background_tasks, tasks, proc, wd, cb, ghost, clock,
      cpc, cur, ret, budget, fg>>
vars == <<policyVars, probeVars, execVars>>

(***************************************************************************)
(* CommandPolicy: _is_command_allowed.                                     *)
(***************************************************************************)
\* a faulty variant: the allow-list is matched without regard to case
allow_match_nocase(command, allowed_cmd) ==
    startswith(lower(strip(command)), lower(allowed_cmd))

\* line 400: command.strip().startswith(allowed_cmd)
allow_match(command, allowed_cmd) == startswith(strip(command), allowed_cmd)

\* line 410: command.strip().lower().startswith(blocked_cmd.lower())
block_match(command, blocked_cmd) ==
    startswith(lower(strip(command)), lower(blocked_cmd))

\* lines 398-402: the loop over the allow-list, from entry i on
RECURSIVE allow_loop(_, _, _)
allow_loop(allowed, command, i) ==
    IF i > Len(allowed) THEN FALSE
    ELSE IF allow_match(command, allowed[i]) THEN TRUE
    ELSE allow_loop(allowed, command, i + 1)

\* lines 409-412: the loop over the block-list, from entry i on
RECURSIVE block_loop(_, _, _)
block_loop(blocked, command, i) ==
    IF i > Len(blocked) THEN FALSE
    ELSE IF block_match(command, blocked[i]) THEN TRUE
    ELSE block_loop(blocked, command, i + 1)

\* a faulty variant: a command found in the allow-list is accepted at once
_is_command_allowed_allow_wins(allowed, blocked, command) ==
    IF Truthy(allowed)
    THEN allow_loop(allowed.items, command, 1)
    ELSE ~block_loop(blocked, command, 1)

\* lines 385-414
_is_command_allowed(allowed, blocked, command) ==
    IF Truthy(allowed) /\ ~allow_loop(allowed.items, command, 1) THEN FALSE
    ELSE IF block_loop(blocked, command, 1) THEN FALSE
    ELSE TRUE

(***************************************************************************)
(* Inputs of the policy check.                                             *)
(***************************************************************************)
\* all strings of at most n characters
StringsUpTo(n) == UNION {[1..k -> Chars] : k \in 0..n}

\* the prefixes the lists are built from
PolicyEntries == {<<>>, <<"a">>, <<"A">>, <<"a", "b">>, <<"b", " ">>}

PolicyLists == UNION {[1..k -> PolicyEntries] : k \in 0..MaxListLen}

\* __init__, line 35: blocked_commands or []
InitBlocked(arg) == IF Truthy(arg) THEN arg.items ELSE <<>>

(***************************************************************************)
(* Values of the executor.                                                 *)
(***************************************************************************)
\* Python's None where a dict is expected
None == [none |-> TRUE]

\* the commands the caller submits
Commands == {<<"a">>, <<" ", "A", "b">>}

\* the commands whose process writes more to stdout than the pipe holds
\* (lines 227-228: stdout and stderr are pipes); the policy of Spec and
\* SpecPair denies them, the policy of SpecOutput accepts them
LargeOutput == {<<" ", "A", "b">>}

\* the policies an executor is constructed with: (allowed, blocked)
PolicyConfigs ==
    { <<ListOf(<< <<"a">> >>), ListOf(<< <<"a", "b">> >>)>> }

\* return codes: a natural exit, and the exit forced by terminate()
ExitCodes == {"0"}
Terminated == "-15"

\* the task ids: f"bg_{int(time.time() * 1000000)}", one per clock value
TaskIds == 0..MaxClock

NoProcess ==
    [state |-> "none", rc |-> "None", ignores |-> FALSE, blocked |-> FALSE]

\* no console in front of the executor
NoConsole == [pc |-> "unused", name |-> "", rest |-> <<>>, spawned |-> <<>>]

\* no call of batch_execute
NoBatch ==
    [pc |-> "unused", commands |-> <<>>, continue_on_error |-> FALSE,
     results |-> <<>>, success_count |-> 0, error_count |-> 0, calls |-> <<>>]

\* the caller is in no call; no foreground process exists
NoCall == [op |-> "none"]
NoForeground == [state |-> "none", rc |-> "None", start |-> 0]

\* lines 255-263: the result of a task whose process was waited for
TaskResult(task, p) ==
    [success |-> TRUE, return_code |-> p.rc, command |-> task.command,
     timeout |-> task.timeout, background |-> TRUE]

\* lines 273-276: the result of a task whose watchdog caught exception e
TaskError(e) == [error |-> "background task failed", exception |-> e]

\* lines 318-324: what get_background_task returns for a registered task
TaskInfo(task) ==
    [id |-> task.id, command |-> task.command, start_time |-> task.start_time,
     running |-> task.running, result |-> task.result]

\* Popen.terminate(): a live process that honours the request exits
terminate(p) ==
    IF p.state = "alive" /\ ~p.ignores
    THEN [state |-> "exited", rc |-> Terminated, ignores |-> FALSE,
          blocked |-> FALSE]
    ELSE p

\* lines 423-431
_add_to_history(history, command, max_history) ==
    LET appended == Append(history, command)
    IN  IF Len(appended) > max_history THEN Tail(appended) ELSE appended

\* line 40
max_history == 100

Tasks == 1..Len(tasks)

(***************************************************************************)
(* Init: the executor after __init__ (lines 33-43).                        *)
(***************************************************************************)
ExecInitWith(b) ==
    /\ command_history = <<>>
    /\ background_tasks = <<>>
    /\ tasks = <<>>
    /\ proc = <<>>
    /\ wd = <<>>
    /\ cb = <<>>
    /\ ghost = <<>>
    /\ clock = 0
    /\ cpc = "idle"
    /\ cur = NoCall
    /\ ret = None
    /\ budget = b
    /\ fg = NoForeground

ExecInit == ExecInitWith([calls |-> MaxCalls, tasks |-> MaxTasks])

ProbeIdle ==
    /\ polPc = "unused"
    /\ polCmd = <<>>
    /\ polRet = FALSE
    /\ hpc = <<>>
    /\ recorded = <<>>
    /\ console = NoConsole
    /\ batch = NoBatch

Init ==
    /\ \E cfg \in PolicyConfigs :
          /\ allowed_commands = cfg[1]
          /\ blocked_commands = InitBlocked(cfg[2])
    /\ ProbeIdle
    /\ ExecInit

(***************************************************************************)
(* The caller thread: the public operations.                               *)
(*                                                                         *)
(* cur, ret and fg describe the call in progress and, in the state right   *)
(* after a call has returned, the call that returned, its return value and *)
(* its process; the next step of any thread forgets them, as the program   *)
(* keeps none of them.                                                     *)
(***************************************************************************)
\* every call starts here: the caller is idle and the call is recorded
Call(c) ==
    /\ cpc = "idle"
    /\ budget.calls > 0
    /\ cur' = c

\* a step of another thread, or of a process
Forget ==
    /\ cur' = IF cpc = "idle" THEN NoCall ELSE cur
    /\ ret' = None
    /\ fg' = IF cpc = "fg_wait" THEN fg ELSE NoForeground
    /\ UNCHANGED <<policyVars, probeVars, cpc, budget>>

\* lines 172-197: the task dict is built and its thread started; the
\* registry entry is written afterwards (BgRegister)
_execute_background(command, callback) ==
    \/ /\ budget.tasks > 0
       /\ budget' = [calls |-> budget.calls - 1, tasks |-> budget.tasks - 1]
       /\ tasks' = Append(tasks,
              [id |-> clock, command |-> command, start_time |-> clock,
               timeout |-> TimeoutTicks, running |-> TRUE, result |-> None,
               process |-> FALSE, callback |-> callback])
       /\ proc' = Append(proc, NoProcess)
       /\ wd' = Append(wd, [pc |-> "spawn", start |-> 0, exc |-> "None"])
       /\ cb' = Append(cb, <<>>)
       /\ ghost' = Append(ghost, [timedOut |-> FALSE, stopped |-> FALSE])
       /\ cpc' = "bg_register"
       /\ ret' = None
       /\ UNCHANGED background_tasks
    \/ \* thread.start() raises (lines 211-214): no thread, no registry entry
       /\ ret' = [error |-> "background start failed"]
       /\ budget' = [budget EXCEPT !.calls = @ - 1]
       /\ UNCHANGED <<background_tasks, tasks, proc, wd, cb, ghost, cpc>>

\* a faulty variant: the call returns the task id without the registry entry
BgRegister_unregistered ==
    /\ cpc = "bg_register"
    /\ LET t == Len(tasks)
       IN  ret' = [success |-> TRUE, task_id |-> tasks[t].id,
                   command |-> tasks[t].command, background |-> TRUE]
    /\ cpc' = "idle"
    /\ UNCHANGED <<policyVars, probeVars, command_history, background_tasks,
                   tasks, proc, wd, cb, ghost, clock, cur, budget, fg>>

\* line 200 and lines 204-210: the task is registered and the call returns
BgRegister ==
    /\ cpc = "bg_register"
    /\ LET t == Len(tasks)
       IN  /\ background_tasks' =
                [i \in DOMAIN background_tasks \cup {tasks[t].id} |->
                    IF i = tasks[t].id THEN t ELSE background_tasks[i]]
           /\ ret' = [success |-> TRUE, task_id |-> tasks[t].id,
                      command |-> tasks[t].command, background |-> TRUE]
    /\ cpc' = "idle"
    /\ UNCHANGED <<policyVars, probeVars, command_history, tasks, proc, wd,
                   cb, ghost, clock, cur, budget, fg>>

\* a faulty variant: a timeout is reported as a success with the output read so far
ForegroundTimeoutPartial(command) ==
    [success |-> TRUE, return_code |-> "None", command |-> command,
     timeout |-> TimeoutTicks, background |-> FALSE]

\* lines 140-143: the result of a foreground call that timed out
ForegroundTimeout(command) == [error |-> "command timed out"]

\* lines 121-129: subprocess.run spawns the process, or raises (lines 144-147)
_execute_foreground(command) ==
    /\ budget' = [budget EXCEPT !.calls = @ - 1]
    /\ \/ /\ fg' = [state |-> "alive", rc |-> "None", start |-> clock]
          /\ cpc' = "fg_wait"
          /\ ret' = None
       \/ /\ ret' = [error |-> "command failed"]
          /\ fg' = NoForeground
          /\ UNCHANGED cpc
    /\ UNCHANGED <<background_tasks, tasks, proc, wd, cb, ghost>>

\* the foreground process exits by itself
FgExit ==
    /\ cpc = "fg_wait"
    /\ fg.state = "alive"
    /\ \E rc \in ExitCodes : fg' = [fg EXCEPT !.state = "exited", !.rc = rc]
    /\ UNCHANGED <<policyVars, probeVars, command_history, background_tasks,
                   tasks, proc, wd, cb, ghost, clock, cpc, cur, ret, budget>>

\* lines 131-139: subprocess.run returned
FgReturn ==
    /\ cpc = "fg_wait"
    /\ fg.state = "exited"
    /\ ret' = [success |-> TRUE, return_code |-> fg.rc, command |-> cur.command,
               timeout |-> TimeoutTicks, background |-> FALSE]
    /\ cpc' = "idle"
    /\ UNCHANGED <<policyVars, probeVars, command_history, background_tasks,
                   tasks, proc, wd, cb, ghost, clock, cur, budget, fg>>

\* lines 140-143: subprocess.run raised TimeoutExpired, after it killed the
\* process and waited for it
FgTimeout ==
    /\ cpc = "fg_wait"
    /\ fg.state = "alive"
    /\ clock - fg.start >= TimeoutTicks
    /\ fg' = [fg EXCEPT !.state = "killed", !.rc = "-9"]
    /\ ret' = ForegroundTimeout(cur.command)
    /\ cpc' = "idle"
    /\ UNCHANGED <<policyVars, probeVars, command_history, background_tasks,
                   tasks, proc, wd, cb, ghost, clock, cur, budget>>

\* a faulty variant: the command is recorded before the policy is asked
execute_command_records_first(command, background, callback) ==
    /\ Call([op |-> "execute_command", command |-> command,
             background |-> background])
    /\ command_history' = _add_to_history(command_history, command, max_history)
    /\ IF ~_is_command_allowed(allowed_commands, blocked_commands, command)
       THEN /\ ret' = [error |-> "command denied"]
            /\ budget' = [budget EXCEPT !.calls = @ - 1]
            /\ fg' = NoForeground
            /\ UNCHANGED <<background_tasks, tasks, proc, wd, cb, ghost, cpc>>
       ELSE IF background
            THEN _execute_background(command, callback) /\ fg' = NoForeground
            ELSE _execute_foreground(command)
    /\ UNCHANGED <<policyVars, probeVars, clock>>

\* lines 70-93
execute_command(command, background, callback) ==
    /\ Call([op |-> "execute_command", command |-> command,
             background |-> background])
    /\ IF ~_is_command_allowed(allowed_commands, blocked_commands, command)
       THEN /\ ret' = [error |-> "command denied"]
            /\ budget' = [budget EXCEPT !.calls = @ - 1]
            /\ fg' = NoForeground
            /\ UNCHANGED <<command_history, background_tasks, tasks, proc, wd,
                           cb, ghost, cpc>>
       ELSE /\ command_history' =
                   _add_to_history(command_history, command, max_history)
            /\ IF background
               THEN _execute_background(command, callback) /\ fg' = NoForeground
               ELSE _execute_foreground(command)
    /\ UNCHANGED <<policyVars, probeVars, clock>>

\* lines 313-324: a read of the registry and of the task
get_background_task(task_id) ==
    IF task_id \notin DOMAIN background_tasks
    THEN [error |-> "not found"]
    ELSE TaskInfo(tasks[background_tasks[task_id]])

\* a faulty variant: a task is stopped whether it is running or not
stop_entry_unchecked(task_id) ==
    IF task_id \notin DOMAIN background_tasks THEN "not found" ELSE "stop"

\* lines 336-342: the early returns of stop_background_task
stop_entry(task_id) ==
    IF task_id \notin DOMAIN background_tasks THEN "not found"
    ELSE IF ~tasks[background_tasks[task_id]].running THEN "not running"
    ELSE "stop"

\* lines 336-347: the checks, and terminate() on the stored handle
stop_background_task(task_id) ==
    /\ Call([op |-> "stop_background_task", task_id |-> task_id])
    /\ LET e == stop_entry(task_id)
       IN  IF e # "stop"
           THEN /\ ret' = [error |-> e]
                /\ UNCHANGED <<tasks, proc, ghost, cpc>>
           ELSE LET t == background_tasks[task_id]
                IN  IF tasks[t].process
                    THEN /\ proc' = [proc EXCEPT ![t] = terminate(@)]
                         /\ ghost' = [ghost EXCEPT ![t].stopped =
                                @ \/ proc'[t] # proc[t]]
                         /\ cpc' = "stop_wait"
                         /\ ret' = None
                         /\ UNCHANGED tasks
                    ELSE /\ tasks' = [tasks EXCEPT ![t].running = FALSE]
                         /\ ret' = [success |-> TRUE, message |-> "stopped"]
                         /\ UNCHANGED <<proc, ghost, cpc>>
    /\ budget' = [budget EXCEPT !.calls = @ - 1]
    /\ fg' = NoForeground
    /\ UNCHANGED <<policyVars, probeVars, command_history, background_tasks,
                   wd, cb, clock>>

\* lines 348-361: wait(timeout=5) returns and the task is marked stopped, or
\* it raises TimeoutExpired and the error is returned
StopWait ==
    /\ cpc = "stop_wait"
    /\ LET t == background_tasks[cur.task_id]
       IN  IF proc[t].state # "alive"
           THEN /\ tasks' = [tasks EXCEPT ![t].running = FALSE]
                /\ ret' = [success |-> TRUE, message |-> "stopped"]
           ELSE /\ ret' = [error |-> "stop failed"]
                /\ UNCHANGED tasks
    /\ cpc' = "idle"
    /\ UNCHANGED <<policyVars, probeVars, command_history, background_tasks,
                   proc, wd, cb, ghost, clock, cur, budget, fg>>

\* a faulty variant: clearing the tasks clears the command history too
clear_background_tasks_and_history ==
    /\ Call([op |-> "clear_background_tasks"])
    /\ LET cleared == {i \in DOMAIN background_tasks :
                          ~tasks[background_tasks[i]].running}
       IN  /\ background_tasks' =
                [i \in DOMAIN background_tasks \ cleared |-> background_tasks[i]]
           /\ ret' = [success |-> TRUE, cleared_tasks |-> cleared,
                      count |-> Cardinality(cleared)]
    /\ command_history' = <<>>
    /\ budget' = [budget EXCEPT !.calls = @ - 1]
    /\ fg' = NoForeground
    /\ UNCHANGED <<policyVars, probeVars, tasks, proc, wd, cb, ghost, clock,
                   cpc>>

\* lines 370-383
clear_background_tasks ==
    /\ Call([op |-> "clear_background_tasks"])
    /\ LET cleared == {i \in DOMAIN background_tasks :
                          ~tasks[background_tasks[i]].running}
       IN  /\ background_tasks' =
                [i \in DOMAIN background_tasks \ cleared |-> background_tasks[i]]
           /\ ret' = [success |-> TRUE, cleared_tasks |-> cleared,
                      count |-> Cardinality(cleared)]
    /\ budget' = [budget EXCEPT !.calls = @ - 1]
    /\ fg' = NoForeground
    /\ UNCHANGED <<policyVars, probeVars, command_history, tasks, proc, wd,
                   cb, ghost, clock, cpc>>

(***************************************************************************)
(* The watchdog thread of task t: _execute_background_task.                *)
(***************************************************************************)
WdFrame ==
    /\ Forget
    /\ UNCHANGED <<command_history, background_tasks, clock>>

\* lines 225-238: Popen starts the process, its handle is stored in the task
\* and the wait starts; or Popen raises. Nothing reads the pipes before
\* line 253, so a process with a large output is blocked in its write
WdSpawn(t) ==
    /\ wd[t].pc = "spawn"
    /\ \/ /\ \E ig \in BOOLEAN :
                proc' = [proc EXCEPT ![t] =
                            [state |-> "alive", rc |-> "None", ignores |-> ig,
                             blocked |-> tasks[t].command \in LargeOutput]]
          /\ tasks' = [tasks EXCEPT ![t].process = TRUE]
          /\ wd' = [wd EXCEPT ![t].pc = "loop", ![t].start = clock]
       \/ /\ wd' = [wd EXCEPT ![t].pc = "exc_result", ![t].exc = "OSError"]
          /\ UNCHANGED <<proc, tasks>>
    /\ UNCHANGED <<cb, ghost>>
    /\ WdFrame

\* lines 239-250: the poll loop ends because the process has exited, or
\* because the timeout has elapsed; a process still running is then sent
\* terminate()
WdLoop(t) ==
    /\ wd[t].pc = "loop"
    /\ IF proc[t].state # "alive"
       THEN /\ wd' = [wd EXCEPT ![t].pc = "communicate", ![t].start = 0]
            /\ UNCHANGED <<proc, ghost>>
       ELSE /\ clock - wd[t].start >= tasks[t].timeout
            /\ proc' = [proc EXCEPT ![t] = terminate(@)]
            /\ ghost' = [ghost EXCEPT ![t].timedOut = TRUE]
            /\ wd' = [wd EXCEPT ![t].pc = "wait", ![t].start = 0]
    /\ UNCHANGED <<tasks, cb>>
    /\ WdFrame

\* a faulty variant: wait() without a timeout, which returns only when the
\* process has exited
WdWait_unbounded(t) ==
    /\ wd[t].pc = "wait"
    /\ proc[t].state # "alive"
    /\ wd' = [wd EXCEPT ![t].pc = "communicate"]
    /\ UNCHANGED <<tasks, proc, cb, ghost>>
    /\ WdFrame

\* line 250: process.wait(timeout=5) returns, or raises TimeoutExpired
WdWait(t) ==
    /\ wd[t].pc = "wait"
    /\ IF proc[t].state # "alive"
       THEN wd' = [wd EXCEPT ![t].pc = "communicate"]
       ELSE wd' = [wd EXCEPT ![t].pc = "exc_result", ![t].exc = "TimeoutExpired"]
    /\ UNCHANGED <<tasks, proc, cb, ghost>>
    /\ WdFrame

\* lines 253-263: the output is read and the result written
WdResult(t) ==
    /\ wd[t].pc = "communicate"
    /\ tasks' = [tasks EXCEPT ![t].result = TaskResult(tasks[t], proc[t])]
    /\ wd' = [wd EXCEPT ![t].pc = "set_running"]
    /\ UNCHANGED <<proc, cb, ghost>>
    /\ WdFrame

\* line 265, and the test of line 268
WdRunning(t) ==
    /\ wd[t].pc = "set_running"
    /\ tasks' = [tasks EXCEPT ![t].running = FALSE]
    /\ wd' = [wd EXCEPT ![t].pc = IF tasks[t].callback THEN "callback" ELSE "done"]
    /\ UNCHANGED <<proc, cb, ghost>>
    /\ WdFrame

\* line 269: the callback is called with the result; it returns (line 271)
\* or raises, which the handler of line 272 catches
WdCallback(t) ==
    /\ wd[t].pc = "callback"
    /\ cb' = [cb EXCEPT ![t] = Append(@, tasks[t].result)]
    /\ \/ wd' = [wd EXCEPT ![t].pc = "done"]
       \/ wd' = [wd EXCEPT ![t].pc = "exc_result", ![t].exc = "CallbackError"]
    /\ UNCHANGED <<tasks, proc, ghost>>
    /\ WdFrame

\* a faulty variant: the exception handler does not record the error
WdExcResult_unrecorded(t) ==
    /\ wd[t].pc = "exc_result"
    /\ wd' = [wd EXCEPT ![t].pc = "exc_running"]
    /\ UNCHANGED <<tasks, proc, cb, ghost>>
    /\ WdFrame

\* lines 273-276
WdExcResult(t) ==
    /\ wd[t].pc = "exc_result"
    /\ tasks' = [tasks EXCEPT ![t].result = TaskError(wd[t].exc)]
    /\ wd' = [wd EXCEPT ![t].pc = "exc_running"]
    /\ UNCHANGED <<proc, cb, ghost>>
    /\ WdFrame

\* line 277, and the test of line 280
WdExcRunning(t) ==
    /\ wd[t].pc = "exc_running"
    /\ tasks' = [tasks EXCEPT ![t].running = FALSE]
    /\ wd' = [wd EXCEPT ![t].pc =
                 IF tasks[t].callback THEN "exc_callback" ELSE "done",
                        ![t].exc = IF tasks[t].callback THEN @ ELSE "None"]
    /\ UNCHANGED <<proc, cb, ghost>>
    /\ WdFrame

\* line 281: the callback is called with the error; if it raises here,
\* nothing catches it and the thread ends
WdExcCallback(t) ==
    /\ wd[t].pc = "exc_callback"
    /\ cb' = [cb EXCEPT ![t] = Append(@, TaskError(wd[t].exc))]
    /\ \/ wd' = [wd EXCEPT ![t].pc = "done", ![t].exc = "None"]
       \/ wd' = [wd EXCEPT ![t].pc = "died", ![t].exc = "None"]
    /\ UNCHANGED <<tasks, proc, ghost>>
    /\ WdFrame

\* the process of task t exits by itself; a process blocked in a write to
\* a full pipe does not
ProcExit(t) ==
    /\ proc[t].state = "alive"
    /\ ~proc[t].blocked
    /\ \E rc \in ExitCodes :
          proc' = [proc EXCEPT ![t] =
                      [state |-> "exited", rc |-> rc, ignores |-> FALSE,
                       blocked |-> FALSE]]
    /\ UNCHANGED <<tasks, wd, cb, ghost>>
    /\ WdFrame

\* time passes
Tick ==
    /\ clock < MaxClock
    /\ clock' = clock + 1
    /\ Forget
    /\ UNCHANGED <<command_history, background_tasks, tasks, proc, wd, cb, ghost>>

Watchdog(t) ==
    \/ WdSpawn(t)
    \/ WdLoop(t)
    \/ WdWait(t)
    \/ WdResult(t)
    \/ WdRunning(t)
    \/ WdCallback(t)
    \/ WdExcResult(t)
    \/ WdExcRunning(t)
    \/ WdExcCallback(t)

Next ==
    \/ \E c \in Commands, bg \in BOOLEAN, callback \in BOOLEAN :
          execute_command(c, bg, callback)
    \/ BgRegister
    \/ FgExit
    \/ FgReturn
    \/ FgTimeout
    \/ \E i \in TaskIds : stop_background_task(i)
    \/ StopWait
    \/ clear_background_tasks
    \/ \E t \in Tasks : Watchdog(t)
    \/ \E t \in Tasks : ProcExit(t)
    \/ Tick

Spec == Init /\ [][Next]_vars

\* the same executor with a caller that may submit one more task and make
\* two more calls
InitPair ==
    /\ \E cfg \in PolicyConfigs :
          /\ allowed_commands = cfg[1]
          /\ blocked_commands = InitBlocked(cfg[2])
    /\ ProbeIdle
    /\ ExecInitWith([calls |-> MaxCalls + 2, tasks |-> MaxTasks + 1])

SpecPair == InitPair /\ [][Next]_vars

(***************************************************************************)
(* SpecLive: the executor of Spec with time that goes on after the last    *)
(* value of the clock, and with fair scheduling: a watchdog thread that    *)
(* can take a step takes one (the threads are daemon threads scheduled by  *)
(* the operating system), and time passes. A process may run forever. The  *)
(* caller submits one background task among its calls: a watchdog reads    *)
(* and writes only its own task.                                           *)
(***************************************************************************)
InitLive ==
    /\ \E cfg \in PolicyConfigs :
          /\ allowed_commands = cfg[1]
          /\ blocked_commands = InitBlocked(cfg[2])
    /\ ProbeIdle
    /\ ExecInitWith([calls |-> MaxCalls, tasks |-> 1])

\* time passes when the clock has reached its last value: the clock keeps
\* its value and the start time of every wait that has not timed out yet
\* is moved back by one tick instead (lines 238-239 and the timeout of
\* line 131 read only the difference)
TickLate ==
    /\ clock = MaxClock
    /\ \/ \E t \in Tasks :
             wd[t].pc = "loop" /\ clock - wd[t].start < tasks[t].timeout
       \/ cpc = "fg_wait" /\ clock - fg.start < TimeoutTicks
    /\ wd' = [t \in Tasks |->
                 IF wd[t].pc = "loop" /\ clock - wd[t].start < tasks[t].timeout
                 THEN [wd[t] EXCEPT !.start = @ - 1]
                 ELSE wd[t]]
    /\ cur' = IF cpc = "idle" THEN NoCall ELSE cur
    /\ ret' = None
    /\ fg' = IF cpc = "fg_wait"
             THEN (IF clock - fg.start < TimeoutTicks
                   THEN [fg EXCEPT !.start = @ - 1]
                   ELSE fg)
             ELSE NoForeground
    /\ UNCHANGED <<policyVars, probeVars, cpc, budget, command_history,
                   background_tasks, tasks, proc, cb, ghost, clock>>

NextLive == Next \/ TickLate

Fairness ==
    /\ WF_vars(1 \in Tasks /\ Watchdog(1))
    /\ WF_vars(Tick)
    /\ WF_vars(TickLate)

SpecLive == InitLive /\ [][NextLive]_vars /\ Fairness

(***************************************************************************)
(* SpecOutput: the executor constructed without allow-list and block-list  *)
(* (the defaults of __init__, lines 24 and 34-35), so that the caller can   *)
(* run the commands with a large output.                                   *)
(***************************************************************************)
InitOutput ==
    /\ allowed_commands = NoneList
    /\ blocked_commands = InitBlocked(NoneList)
    /\ ProbeIdle
    /\ ExecInit

SpecOutput == InitOutput /\ [][Next]_vars

(***************************************************************************)
(* SpecPolicy: _is_command_allowed on bounded inputs.                      *)
(***************************************************************************)
InitPolicy ==
    /\ allowed_commands \in {NoneList} \cup {ListOf(l) : l \in PolicyLists}
    /\ \E arg \in {NoneList} \cup {ListOf(l) : l \in PolicyLists} :
          blocked_commands = InitBlocked(arg)
    /\ polPc = "call"
    /\ polCmd \in StringsUpTo(MaxCmdLen)
    /\ polRet = FALSE
    /\ hpc = <<>>
    /\ recorded = <<>>
    /\ console = NoConsole
    /\ batch = NoBatch
    /\ ExecInit

CheckPolicy ==
    /\ polPc = "call"
    /\ polRet' = _is_command_allowed(allowed_commands, blocked_commands, polCmd)
    /\ polPc' = "returned"
    /\ UNCHANGED <<policyVars, polCmd, hpc, recorded, console, batch, execVars>>

NextPolicy == CheckPolicy

SpecPolicy == InitPolicy /\ [][NextPolicy]_vars

(***************************************************************************)
(* SpecHistory: _add_to_history called by several threads, statement by    *)
(* statement, on a history that already holds max_history - 1 or           *)
(* max_history commands (or none, as after __init__).                      *)
(***************************************************************************)
Callers == 1..MaxCallers

\* the history after n accepted commands, n <= max_history
Recorded(n) ==
    [i \in 1..n |-> IF i % 2 = 1 THEN <<"a">> ELSE <<" ", "A", "b">>]

InitHistory ==
    /\ \E cfg \in PolicyConfigs :
          /\ allowed_commands = cfg[1]
          /\ blocked_commands = InitBlocked(cfg[2])
    /\ polPc = "unused"
    /\ polCmd = <<>>
    /\ polRet = FALSE
    /\ hpc = [c \in Callers |-> "idle"]
    /\ console = NoConsole
    /\ batch = NoBatch
    /\ \E n \in {0, max_history - 1, max_history} :
          /\ command_history = Recorded(n)
          /\ recorded = Recorded(n)
    /\ background_tasks = <<>>
    /\ tasks = <<>>
    /\ proc = <<>>
    /\ wd = <<>>
    /\ cb = <<>>
    /\ ghost = <<>>
    /\ clock = 0
    /\ cpc = "idle"
    /\ cur = NoCall
    /\ ret = None
    /\ budget = [calls |-> MaxCalls + 1, tasks |-> 0]
    /\ fg = NoForeground

HistFrame ==
    UNCHANGED <<policyVars, polPc, polCmd, polRet, console, batch,
                background_tasks, tasks, proc, wd, cb, ghost, clock, cpc, fg>>

\* a step inside _add_to_history: the last call of get_command_history and
\* what it returned are forgotten
HistForget == cur' = NoCall /\ ret' = None

\* line 423: self.command_history.append(history_item)
HistAppend(c, command) ==
    /\ hpc[c] = "idle"
    /\ budget.calls > 0
    /\ budget' = [budget EXCEPT !.calls = @ - 1]
    /\ command_history' = Append(command_history, command)
    /\ recorded' = Append(recorded, command)
    /\ hpc' = [hpc EXCEPT ![c] = "appended"]
    /\ HistForget
    /\ HistFrame

\* line 430: if len(self.command_history) > self.max_history
HistCheck(c) ==
    /\ hpc[c] = "appended"
    /\ hpc' = [hpc EXCEPT ![c] =
                  IF Len(command_history) > max_history THEN "pop" ELSE "idle"]
    /\ UNCHANGED <<command_history, recorded, budget>>
    /\ HistForget
    /\ HistFrame

\* line 431: self.command_history.pop(0)
HistPop(c) ==
    /\ hpc[c] = "pop"
    /\ command_history' = Tail(command_history)
    /\ hpc' = [hpc EXCEPT ![c] = "idle"]
    /\ UNCHANGED <<recorded, budget>>
    /\ HistForget
    /\ HistFrame

\* lines 433-443: self.command_history[-count:]
get_command_history(count) ==
    LET n == Len(command_history)
        start == IF count > 0
                 THEN (IF n - count > 0 THEN n - count ELSE 0)
                 ELSE (IF 0 - count < n THEN 0 - count ELSE n)
    IN  SubSeq(command_history, start + 1, n)

\* the counts get_command_history is called with
Counts == 0..MaxCount \cup {max_history - 1, max_history, max_history + 1}

\* a call of get_command_history(count), by any thread
HistGet(count) ==
    /\ cur' = [op |-> "get_command_history", count |-> count]
    /\ ret' = [value |-> get_command_history(count)]
    /\ UNCHANGED <<command_history, recorded, hpc, budget>>
    /\ HistFrame

NextHistory ==
    \/ \E c \in Callers :
          \/ \E command \in Commands : HistAppend(c, command)
          \/ HistCheck(c)
          \/ HistPop(c)
    \/ \E count \in Counts : HistGet(count)

SpecHistory == InitHistory /\ [][NextHistory]_vars

(***************************************************************************)
(* SpecConsole: CommandHandler (src/core/command_handler.py) handling one  *)
(* typed line. The line is its first word, the name of a CLI command, and  *)
(* the text after it; the executor is constructed from the settings.       *)
(***************************************************************************)
\* the first words typed: "exec" and "echo" are registered (lines 92-128),
\* "bg" is not
CliNames == {"exec", "echo", "bg"}

\* shlex.split (line 147) of a text without quotes: its words
RECURSIVE split(_)
split(s) ==
    LET t == lstrip(s)
    IN  IF t = <<>>
        THEN <<>>
        ELSE LET n == CHOOSE i \in 1..(Len(t) + 1) :
                          /\ i = Len(t) + 1 \/ IsSpace(t[i])
                          /\ \A j \in 1..(i - 1) : ~IsSpace(t[j])
             IN  <<SubSeq(t, 1, n - 1)>> \o split(SubSeq(t, n, Len(t)))

\* " ".join(args) (line 271)
RECURSIVE join(_)
join(args) ==
    IF args = <<>>
    THEN <<>>
    ELSE IF Len(args) = 1
         THEN args[1]
         ELSE args[1] \o <<" ">> \o join(Tail(args))

\* __init__, lines 56-65: the executor gets the lists of the settings
InitConsole ==
    /\ allowed_commands \in {NoneList, ListOf(<<>>)}
    /\ \E arg \in {NoneList} \cup {ListOf(l) : l \in PolicyLists} :
          blocked_commands = InitBlocked(arg)
    /\ polPc = "unused"
    /\ polCmd = <<>>
    /\ polRet = FALSE
    /\ hpc = <<>>
    /\ recorded = <<>>
    /\ \E name \in CliNames, rest \in StringsUpTo(MaxCmdLen) :
          console = [pc |-> "prompt", name |-> name, rest |-> rest,
                     spawned |-> <<>>]
    /\ batch = NoBatch
    /\ ExecInit

ConsoleFrame == UNCHANGED <<policyVars, polPc, polCmd, polRet, hpc, recorded,
                            batch, execVars>>

\* handle_command, lines 146-159: the registered command is looked up
handle_command ==
    /\ console.pc = "prompt"
    /\ console' = [console EXCEPT !.pc =
                      IF console.name = "exec" THEN "cmd_execute"
                      ELSE IF console.name = "echo" THEN "cmd_echo"
                      ELSE "done"]
    /\ ConsoleFrame

\* cmd_execute, lines 265-284, registered as "exec" (line 103), and
\* SystemTools.execute_command (system_tools.py, lines 28-63): the joined
\* arguments are given to subprocess.run
cmd_execute ==
    /\ console.pc = "cmd_execute"
    /\ LET args == split(console.rest)
       IN  console' = [console EXCEPT
                          !.pc = "done",
                          !.spawned = IF args = <<>>
                                      THEN @
                                      ELSE Append(@, join(args))]
    /\ ConsoleFrame

\* cmd_echo, lines 259-263: prints its arguments
cmd_echo ==
    /\ console.pc = "cmd_echo"
    /\ console' = [console EXCEPT !.pc = "done"]
    /\ ConsoleFrame

NextConsole == handle_command \/ cmd_execute \/ cmd_echo

SpecConsole == InitConsole /\ [][NextConsole]_vars

(***************************************************************************)
(* SpecBatch: one call of batch_execute on a list of commands (lines       *)
(* 504-545). Each execute_command(command, timeout) of the loop is a       *)
(* foreground call and returns one of the values the foreground call       *)
(* returns in Spec.                                                        *)
(***************************************************************************)
\* what execute_command(command, timeout) can return: the denial (line 72),
\* the success of a process that exited, the timeout error or the error of
\* a failed spawn (lines 131-147)
execute_command_results(command) ==
    IF ~_is_command_allowed(allowed_commands, blocked_commands, command)
    THEN {[error |-> "command denied"]}
    ELSE {[success |-> TRUE, return_code |-> rc, command |-> command,
           timeout |-> TimeoutTicks, background |-> FALSE] : rc \in ExitCodes}
         \cup {ForegroundTimeout(command), [error |-> "command failed"]}

\* result.get("success") (line 528)
result_success(result) == "success" \in DOMAIN result /\ result.success

InitBatch ==
    /\ \E cfg \in PolicyConfigs :
          /\ allowed_commands = cfg[1]
          /\ blocked_commands = InitBlocked(cfg[2])
    /\ polPc = "unused"
    /\ polCmd = <<>>
    /\ polRet = FALSE
    /\ hpc = <<>>
    /\ recorded = <<>>
    /\ console = NoConsole
    /\ \E commands \in UNION {[1..k -> Commands] : k \in 0..MaxBatch},
          continue_on_error \in BOOLEAN :
          batch = [pc |-> "loop", commands |-> commands,
                   continue_on_error |-> continue_on_error,
                   results |-> <<>>, success_count |-> 0, error_count |-> 0,
                   calls |-> <<>>]
    /\ ExecInit

BatchFrame ==
    UNCHANGED <<policyVars, polPc, polCmd, polRet, hpc, recorded, console,
                background_tasks, tasks, proc, wd, cb, ghost, clock, cpc, cur,
                budget, fg>>

\* a faulty variant: the loop goes on after an error also when
\* continue_on_error is false
BatchIteration_no_break ==
    /\ batch.pc = "loop"
    /\ Len(batch.results) < Len(batch.commands)
    /\ LET command == batch.commands[Len(batch.results) + 1]
       IN  /\ \E result \in execute_command_results(command) :
                batch' = [batch EXCEPT
                    !.results = Append(@, result),
                    !.calls = Append(@, command),
                    !.success_count = IF result_success(result) THEN @ + 1 ELSE @,
                    !.error_count = IF result_success(result) THEN @ ELSE @ + 1]
           /\ command_history' =
                  IF _is_command_allowed(allowed_commands, blocked_commands, command)
                  THEN _add_to_history(command_history, command, max_history)
                  ELSE command_history
    /\ UNCHANGED ret
    /\ BatchFrame

\* lines 524-534: one iteration of the loop
BatchIteration ==
    /\ batch.pc = "loop"
    /\ Len(batch.results) < Len(batch.commands)
    /\ LET command == batch.commands[Len(batch.results) + 1]
       IN  /\ \E result \in execute_command_results(command) :
                batch' = [batch EXCEPT
                    !.results = Append(@, result),
                    !.calls = Append(@, command),
                    !.success_count = IF result_success(result) THEN @ + 1 ELSE @,
                    !.error_count = IF result_success(result) THEN @ ELSE @ + 1,
                    !.pc = IF ~result_success(result) /\ ~batch.continue_on_error
                           THEN "break"
                           ELSE "loop"]
           /\ command_history' =
                  IF _is_command_allowed(allowed_commands, blocked_commands, command)
                  THEN _add_to_history(command_history, command, max_history)
                  ELSE command_history
    /\ UNCHANGED ret
    /\ BatchFrame

\* lines 536-543: the loop has ended and the summary is returned
BatchReturn ==
    /\ \/ batch.pc = "break"
       \/ batch.pc = "loop" /\ Len(batch.results) = Len(batch.commands)
    /\ ret' = [success |-> batch.error_count = 0,
               results |-> batch.results,
               total |-> Len(batch.commands),
               success_count |-> batch.success_count,
               error_count |-> batch.error_count,
               commands |-> batch.commands]
    /\ batch' = [batch EXCEPT !.pc = "returned"]
    /\ UNCHANGED command_history
    /\ BatchFrame

NextBatch == BatchIteration \/ BatchReturn

SpecBatch == InitBatch /\ [][NextBatch]_vars

(***************************************************************************)
(* Properties.                                                             *)
(***************************************************************************)
\* the policy as the specification words it, for the command c
BlockListed(c) ==
    \E i \in 1..Len(blocked_commands) :
        startswith(lower(strip(c)), lower(blocked_commands[i]))

AllowListed(c) ==
    \E i \in 1..Len(allowed_commands.items) :
        startswith(strip(c), allowed_commands.items[i])

Denied(c) == (Truthy(allowed_commands) /\ ~AllowListed(c)) \/ BlockListed(c)

\* C1: a command whose trimmed, lower-cased text starts with a lower-cased
\* block-list entry is not allowed, whatever the allow-list is (unset, empty
\* or matching the command).
C1_BlockListWins ==
    (polPc = "returned" /\ BlockListed(polCmd)) => polRet = FALSE

\* a checked command that the allow-list accepts and the block-list matches
\* only after trimming or lower-casing
C1_Witness ==
    /\ polPc = "returned"
    /\ Truthy(allowed_commands)
    /\ AllowListed(polCmd)
    /\ BlockListed(polCmd)
    /\ \A i \in 1..Len(blocked_commands) : ~startswith(polCmd, blocked_commands[i])

\* C2: with a non-empty allow-list, a command is allowed if and only if its
\* trimmed text starts with an allow-list entry (exact match) and it is not
\* block-listed.
C2_AllowListIff ==
    (polPc = "returned" /\ Truthy(allowed_commands))
        => (polRet <=> (AllowListed(polCmd) /\ ~BlockListed(polCmd)))

\* a command allowed under a non-empty allow-list and a non-empty
\* block-list, that matches its allow-list entry only once trimmed
C2_Witness ==
    /\ polPc = "returned"
    /\ Truthy(allowed_commands)
    /\ blocked_commands # <<>>
    /\ polRet = TRUE
    /\ polCmd # strip(polCmd)

\* the step is the entry of a call of op
Enters(op) ==
    /\ cpc = "idle"
    /\ budget'.calls < budget.calls
    /\ cur'.op = op

\* C3: a call of execute_command with a command the policy denies returns an
\* error at once and spawns no process, adds no task, starts no watchdog
\* thread and leaves the command history as it was.
C3_DeniedNoSideEffect ==
    [][(Enters("execute_command") /\ Denied(cur'.command))
          => /\ cpc' = "idle"
             /\ "error" \in DOMAIN ret'
             /\ fg'.state = "none"
             /\ UNCHANGED <<command_history, background_tasks, tasks, proc,
                            wd, cb>>]_vars

\* a denied background call has returned, in an executor that has run a
\* command before
C3_Witness ==
    /\ cpc = "idle"
    /\ cur.op = "execute_command"
    /\ cur.background
    /\ Denied(cur.command)
    /\ command_history # <<>>

\* the submission of task t has returned to its caller
Submitted(t) == t \in Tasks /\ (t < Len(tasks) \/ cpc # "bg_register")

\* C4: two background submissions that succeeded returned different task
\* ids, also when made within one tick of the clock, so that neither
\* overwrote the other's registry entry.
C4_UniqueTaskIds ==
    \A t1, t2 \in Tasks :
        (Submitted(t1) /\ Submitted(t2) /\ t1 # t2) => tasks[t1].id # tasks[t2].id

\* C5: a task leaves running at most once, and its result, once written, is
\* never replaced by another value.
C5_RunningOnceResultWriteOnce ==
    [][\A t \in Tasks :
          /\ ~tasks[t].running => ~tasks'[t].running
          /\ tasks[t].result # None => tasks'[t].result = tasks[t].result]_vars

\* the watchdog of task t has ended
Ended(t) == wd[t].pc \in {"done", "died"}

\* C6: the callback of a task is invoked exactly once, and only after the
\* result is set, on every path and also when the callback raises.
C6_CallbackExactlyOnce ==
    \A t \in Tasks :
        tasks[t].callback
            => /\ Len(cb[t]) <= 1
               /\ Len(cb[t]) > 0 => tasks[t].result # None
               /\ Ended(t) => Len(cb[t]) = 1

\* the result of a terminal task reports a success
ReportsSuccess(r) == "success" \in DOMAIN r /\ r.success

\* C7: a task whose process was still running when its timeout elapsed is,
\* once terminal, not reported as a success by get_background_task.
C7_TimedOutNotSuccess ==
    \A i \in DOMAIN background_tasks :
        LET t == background_tasks[i]
            info == get_background_task(i)
        IN  (ghost[t].timedOut /\ ~info.running /\ info.result # None)
                => ~ReportsSuccess(info.result)

\* C8: a foreground call that returns while its process is still running
\* returns the timeout error, never a success, and has ended the process.
C8_ForegroundTimeout ==
    [][(cpc = "fg_wait" /\ cpc' = "idle" /\ fg.state = "alive")
          => /\ clock - fg.start >= TimeoutTicks
             /\ ret' = [error |-> "command timed out"]
             /\ fg'.state = "killed"]_vars

\* a foreground call has returned the timeout error
C8_Witness ==
    /\ cpc = "idle"
    /\ cur.op = "execute_command"
    /\ ~cur.background
    /\ fg.state = "killed"
    /\ "error" \in DOMAIN ret

\* what get_background_task tells of how a task ended: its answer without
\* the id and the start time
Outcome(info) ==
    [command |-> info.command, running |-> info.running, result |-> info.result]

\* C9: a task that stop_background_task stopped while it ran ends in an
\* outcome that get_background_task shows to differ from that of a task
\* that timed out or completed by itself.
C9_TerminatedDistinct ==
    \A i1, i2 \in DOMAIN background_tasks :
        LET t1 == background_tasks[i1]
            t2 == background_tasks[i2]
        IN  (/\ Ended(t1) /\ Ended(t2)
             /\ ghost[t1].stopped /\ ~ghost[t1].timedOut
             /\ ~ghost[t2].stopped
             /\ ghost[t2].timedOut \/ ReportsSuccess(tasks[t2].result))
                => Outcome(get_background_task(i1))
                       # Outcome(get_background_task(i2))

\* C10: stop_background_task on a task that is not running returns the
\* not-running error, and on an unknown id the not-found error; either way
\* tasks, registry, processes and threads are left as they were.
C10_StopTerminalNoEffect ==
    [][\A i \in TaskIds :
          (Enters("stop_background_task") /\ cur'.task_id = i)
              => /\ i \notin DOMAIN background_tasks
                    => /\ ret' = [error |-> "not found"]
                       /\ cpc' = "idle"
                       /\ UNCHANGED <<tasks, background_tasks, proc, wd, cb,
                                      command_history>>
                 /\ (i \in DOMAIN background_tasks
                        /\ ~tasks[background_tasks[i]].running)
                    => /\ ret' = [error |-> "not running"]
                       /\ cpc' = "idle"
                       /\ UNCHANGED <<tasks, background_tasks, proc, wd, cb,
                                      command_history>>]_vars

\* stop has returned the not-running error for a registered task that has
\* a result
C10_Witness ==
    /\ cpc = "idle"
    /\ cur.op = "stop_background_task"
    /\ ret = [error |-> "not running"]
    /\ cur.task_id \in DOMAIN background_tasks
    /\ tasks[background_tasks[cur.task_id]].result # None

\* C11: clear_background_tasks removes exactly the registered tasks that are
\* not running when it is called and leaves the running ones retrievable;
\* the count it returns is the number of tasks that were not running, and
\* it is 2 after two tasks were submitted, the first was stopped while it
\* ran and the second completed by itself.
C11_ClearRemovesTerminal ==
    [][Enters("clear_background_tasks")
          => /\ \A i \in DOMAIN background_tasks :
                    IF get_background_task(i).running
                    THEN /\ i \in DOMAIN background_tasks'
                         /\ background_tasks'[i] = background_tasks[i]
                    ELSE i \notin DOMAIN background_tasks'
             /\ DOMAIN background_tasks' \subseteq DOMAIN background_tasks
             /\ ret'.count = Cardinality(DOMAIN background_tasks
                                             \ DOMAIN background_tasks')
             /\ (/\ Len(tasks) = 2
                 /\ Ended(1) /\ ghost[1].stopped /\ ~ghost[1].timedOut
                 /\ Ended(2) /\ ~ghost[2].stopped /\ ~ghost[2].timedOut
                 /\ ReportsSuccess(tasks[2].result))
                    => ret'.count = 2]_vars

\* C12: once get_background_task shows a task as not running, every later
\* get_background_task for that id, as long as the registry holds the same
\* task under it, shows the same state: not running, with the same result.
C12_TerminalAbsorbing ==
    [][\A i \in DOMAIN background_tasks :
          (/\ ~get_background_task(i).running
           /\ i \in DOMAIN background_tasks'
           /\ background_tasks'[i] = background_tasks[i])
              => /\ ~get_background_task(i)'.running
                 /\ get_background_task(i)'.result
                        = get_background_task(i).result]_vars

\* the part of C12 that the code keeps: no step sets a task's running flag
\* again
C12_NeverBackToRunning ==
    [][\A t \in Tasks : ~tasks[t].running => ~tasks'[t].running]_vars

C14_HistoryBounded == Len(command_history) <= max_history

\* C15: once max_history or more commands have been recorded (and the
\* history never cleared), get_command_history(max_history) returns exactly
\* the last max_history recorded commands, oldest first.
C15_FifoEviction ==
    Len(recorded) >= max_history
        => get_command_history(max_history)
               = SubSeq(recorded, Len(recorded) - max_history + 1,
                        Len(recorded))

\* C16: a call of execute_command that the policy accepts, foreground or
\* background, appends exactly one entry, its command, to the history when
\* it is made; no later step of that call, whatever its outcome, and no
\* other operation (stop, clear, the watchdogs, a denied call) adds or
\* removes a history entry.
C16_OneHistoryEntryPerCall ==
    [][IF Enters("execute_command") /\ ~Denied(cur'.command)
       THEN command_history' = Append(command_history, cur'.command)
       ELSE UNCHANGED command_history]_vars

\* an accepted foreground call has returned an error and left its one
\* entry in the history
C16_Witness ==
    /\ cpc = "idle"
    /\ cur.op = "execute_command"
    /\ ~cur.background
    /\ ~Denied(cur.command)
    /\ "error" \in DOMAIN ret
    /\ command_history = <<cur.command>>

\* Popen raised in the watchdog of task t: the watchdog is past the spawn
\* and there is no process
SpawnFailed(t) == wd[t].pc # "spawn" /\ proc[t].state = "none"

C18_CallbackFailureKeepsResult ==
    [][\A t \in Tasks :
          cb[t] # <<>>
              => /\ tasks'[t].running = tasks[t].running
                 /\ tasks'[t].result = tasks[t].result]_vars

\* C19: in the state in which the watchdog invokes the callback of a task,
\* get_background_task of the task's id shows that task, not running and
\* with the result that is passed to the callback.
C19_CallbackAfterRecorded ==
    [][\A t \in Tasks :
          cb'[t] # cb[t]
              => /\ tasks[t].id \in DOMAIN background_tasks
                 /\ background_tasks[tasks[t].id] = t
                 /\ ~get_background_task(tasks[t].id).running
                 /\ get_background_task(tasks[t].id).result
                        = cb'[t][Len(cb'[t])]]_vars

\* the step is one of a caller operation that reads or writes the record of
\* task t: stop_background_task on its id, from its lookup to its last
\* write, or clear_background_tasks while the task is registered
CallerTouches(t) ==
    \/ /\ Enters("stop_background_task")
       /\ cur'.task_id \in DOMAIN background_tasks
       /\ background_tasks[cur'.task_id] = t
    \/ /\ cpc = "stop_wait" /\ cpc' = "idle"
       /\ background_tasks[cur.task_id] = t
    \/ /\ Enters("clear_background_tasks")
       /\ \E i \in DOMAIN background_tasks : background_tasks[i] = t

\* C20: the accesses to a task record exclude each other: no caller
\* operation reads or writes the record of a task between the watchdog's
\* write of its result and its write of the running flag, and the record of
\* a task is not written by its watchdog while stop_background_task is at
\* work on it.
C20_RegistryMutualExclusion ==
    [][\A t \in Tasks :
          /\ wd[t].pc \in {"set_running", "exc_running"} => ~CallerTouches(t)
          /\ (/\ cpc = "stop_wait" /\ cpc' = "stop_wait"
              /\ background_tasks[cur.task_id] = t)
                => tasks'[t] = tasks[t]]_vars

\* C21: a task that has become terminal after its timeout elapsed with the
\* process still running has no live process: the watchdog terminated it
\* and, for a process that ignores the request, killed it.
C21_TimedOutProcessEnded ==
    \A t \in Tasks :
        (ghost[t].timedOut /\ ~tasks[t].running /\ Ended(t))
            => proc[t].state # "alive"

\* C22: when stop_background_task returns from a stop of a running task
\* that went through its checks, the task is recorded as not running, also
\* when the process has not exited within the wait after terminate.
C22_StopAlwaysTerminal ==
    [][\A i \in DOMAIN background_tasks :
          \/ /\ Enters("stop_background_task")
             /\ cur'.task_id = i
             /\ stop_entry(i) = "stop"
             /\ cpc' = "idle"
          \/ /\ cpc = "stop_wait" /\ cpc' = "idle"
             /\ cur.task_id = i
          => ~tasks'[background_tasks[i]].running]_vars

\* C23: the process handle of a task is used only by the task's watchdog
\* and only while the task is running: the caller's thread makes no
\* terminate or wait on it, and the watchdog makes no poll, terminate, wait
\* or communicate on it once the task is not running.
C23_HandleOwnedByWatchdog ==
    [][/\ ~(cpc = "idle" /\ cpc' = "stop_wait")
       /\ ~(cpc = "stop_wait" /\ cpc' = "idle")
       /\ \A t \in Tasks :
             (~tasks[t].running /\ wd[t].pc \in {"loop", "wait", "communicate"})
                 => wd'[t] = wd[t]]_vars

\* C24: whenever get_background_task shows a task as running, it shows it
\* without a result.
C24_ResultOnlyWhenTerminal ==
    \A i \in DOMAIN background_tasks :
        get_background_task(i).running
            => get_background_task(i).result = None

\* C26: a stop_background_task that returns success leaves no live process
\* of the task, and no process is spawned for a task that is not running
\* (before the spawn only a successful stop clears the running flag).
C26_NoProcessAfterStop ==
    [][\A t \in Tasks :
          /\ (/\ cur'.op = "stop_background_task"
              /\ cpc' = "idle"
              /\ cpc \in {"idle", "stop_wait"}
              /\ ReportsSuccess(ret')
              /\ cur'.task_id \in DOMAIN background_tasks
              /\ background_tasks[cur'.task_id] = t)
                => proc'[t].state # "alive"
          /\ (proc[t].state = "none" /\ proc'[t].state = "alive")
                => tasks[t].running]_vars

\* C25: a background process that writes more than the pipe holds has its
\* output read while the watchdog waits: when the watchdog has ended, with
\* no stop and the process spawned, the task is recorded as a completion
\* with the exit code of the process, not as timed out.
C25_LargeOutputDrained ==
    \A t \in Tasks :
        (/\ tasks[t].command \in LargeOutput
         /\ Ended(t)
         /\ tasks[t].process
         /\ ~ghost[t].stopped)
            => /\ ~ghost[t].timedOut
               /\ ReportsSuccess(tasks[t].result)
               /\ tasks[t].result.return_code \in ExitCodes

\* task t is terminal: not running, with a result recorded
Terminal(t) == t \in Tasks /\ ~tasks[t].running /\ tasks[t].result # None

C28_ConsoleGatedByPolicy ==
    \A i \in 1..Len(console.spawned) : ~BlockListed(console.spawned[i])

\* C29: get_command_history(n), n >= 0, returns the last min(n, size)
\* entries of the history, oldest first, and never more than n entries;
\* get_command_history(0) returns the empty list.
C29_HistoryTail ==
    [][\A n \in Counts :
          (cur'.op = "get_command_history" /\ cur'.count = n)
              => LET size == Len(command_history)
                     k == IF n < size THEN n ELSE size
                 IN  /\ ret'.value = SubSeq(command_history, size - k + 1, size)
                     /\ Len(ret'.value) <= n]_vars

\* C30: batch_execute has called execute_command on a prefix of the list,
\* in list order; with continue_on_error false every result before the
\* last is a success and the call ends before the end of the list only
\* after a result that is not one, with continue_on_error true every
\* command was executed; success_count + error_count is the number of
\* results, and the overall success is true iff error_count is 0.
C30_BatchStopsAtFirstError ==
    batch.pc = "returned"
        => LET n == Len(ret.results)
           IN  /\ batch.calls = SubSeq(batch.commands, 1, n)
               /\ \A i \in 1..n :
                     ret.results[i] \in execute_command_results(batch.commands[i])
               /\ IF batch.continue_on_error
                  THEN n = Len(batch.commands)
                  ELSE /\ \A i \in 1..(n - 1) : ReportsSuccess(ret.results[i])
                       /\ n < Len(batch.commands)
                             => ~ReportsSuccess(ret.results[n])
               /\ ret.success_count
                     = Cardinality({i \in 1..n : ReportsSuccess(ret.results[i])})
               /\ ret.success_count + ret.error_count = n
               /\ ret.success <=> ret.error_count = 0
               /\ ret.total = Len(batch.commands)

\* a batch with continue_on_error false has returned after a denied
\* command, with commands left that were not executed
C30_Witness ==
    /\ batch.pc = "returned"
    /\ ~batch.continue_on_error
    /\ Len(ret.results) >= 2
    /\ Len(ret.results) < Len(batch.commands)
    /\ Denied(batch.commands[Len(ret.results)])
    /\ ~ret.success
    /\ ret.success_count = Len(ret.results) - 1

\* a batch with continue_on_error true has executed every command, a
\* failing one not the last
C30_WitnessContinue ==
    /\ batch.pc = "returned"
    /\ batch.continue_on_error
    /\ Len(ret.results) = MaxBatch
    /\ ~ReportsSuccess(ret.results[1])
    /\ ret.error_count = 1

====
